---- MODULE Spec2Model ----
(***************************************************************************)
(* A model of the navigation crawl of hello-interview-crawler/crawler.js:  *)
(* extractNavigationLinks, crawlFromNavigation, crawlMultiplePages and     *)
(* crawlPage, with the browser, the file system and the clock as the       *)
(* environment.  One action per resumption of the async code: every await  *)
(* on the browser or on a timer ends an action.                            *)
(***************************************************************************)
EXTENDS Integers, Sequences, FiniteSets, TLC

(***************************************************************************)
(* Bounds of the model.                                                    *)
(***************************************************************************)
\* longest URL list handed to crawlMultiplePages
MaxUrls == 2
\* most anchors in the navigation drawer
MaxAnchors == 2
\* failures the environment may inject in one run
MaxFaults == 2
\* days the clock may advance during one run
MaxDate == 1
\* most words in the text of a page
MaxWords == 3
\* most content elements in a page
MaxElements == 2
\* most cookies a crawler is given
MaxCookies == 2
\* most accordion controls in a document
MaxControls == 2

(***************************************************************************)
(* JavaScript values.  An optional number is a record: undefined, null or  *)
(* a number.                                                               *)
(***************************************************************************)
Undef == [k |-> "undefined", v |-> 0]
Null == [k |-> "null", v |-> 0]
Num(n) == [k |-> "number", v |-> n]
\* the number NaN, which is falsy and compares false with every number
NaN == [k |-> "NaN", v |-> 0]
\* JS truthiness of an optional number (0 is falsy)
Truthy(x) == x.k = "number" /\ x.v # 0
\* a parameter or destructuring default applies to undefined only
Default(x, d) == IF x.k = "undefined" THEN d ELSE x

(***************************************************************************)
(* Strings.  TLC gives Len, \o and SubSeq on strings; a character is a     *)
(* string of length 1.                                                     *)
(***************************************************************************)
Char(s, i) == SubSeq(s, i, i)

\* F of the value of x: x is computed once, however often F uses it
Apply(F(_), x) == CHOOSE y \in { F(v) : v \in {x} } : TRUE
UpperChars == "ABCDEFGHIJKLMNOPQRSTUVWXYZ"
LowerChars == "abcdefghijklmnopqrstuvwxyz"
DigitChars == "0123456789"

\* whether the one-character string c occurs in s
CharIn(c, s) == \E i \in 1..Len(s) : Char(s, i) = c

\* String.prototype.startsWith
StartsWith(s, p) == Len(p) <= Len(s) /\ SubSeq(s, 1, Len(p)) = p

\* String.prototype.includes
Includes(s, p) == \E i \in 1..(Len(s) - Len(p) + 1) : SubSeq(s, i, i + Len(p) - 1) = p

\* case folding of one character, as the 'i' flag of a RegExp compares letters
LowerChar(c) ==
  IF CharIn(c, UpperChars)
    THEN LET i == CHOOSE j \in 1..Len(UpperChars) : Char(UpperChars, j) = c
         IN  Char(LowerChars, i)
    ELSE c

RECURSIVE Lower(_)
Lower(s) == IF s = "" THEN "" ELSE LowerChar(Char(s, 1)) \o Lower(SubSeq(s, 2, Len(s)))

\* String.prototype.trim, for the blank character
RECURSIVE TrimLeft(_)
TrimLeft(s) == IF s # "" /\ Char(s, 1) = " " THEN TrimLeft(SubSeq(s, 2, Len(s))) ELSE s
RECURSIVE TrimRight(_)
TrimRight(s) ==
  IF s # "" /\ Char(s, Len(s)) = " " THEN TrimRight(SubSeq(s, 1, Len(s) - 1)) ELSE s
Trim(s) == TrimRight(TrimLeft(s))

\* Array.prototype.slice(start) and slice(0, end) for integer arguments
SliceFrom(seq, start) ==
  LET from == IF start < 0 THEN (IF Len(seq) + start < 0 THEN 0 ELSE Len(seq) + start)
              ELSE start
  IN  SubSeq(seq, from + 1, Len(seq))
SliceTo(seq, end) ==
  LET to == IF end < 0 THEN (IF Len(seq) + end < 0 THEN 0 ELSE Len(seq) + end)
            ELSE (IF end > Len(seq) THEN Len(seq) ELSE end)
  IN  SubSeq(seq, 1, to)

(***************************************************************************)
(* Regular expressions: new RegExp(pattern, 'i') and RegExp.prototype.test *)
(* for the patterns the model draws: an alternation (|) of literals, each  *)
(* optionally anchored at the start (^).  A pattern with an unbalanced     *)
(* parenthesis does not compile: new RegExp throws a SyntaxError.          *)
(***************************************************************************)
RECURSIVE ParenDepth(_, _)
ParenDepth(p, d) ==
  IF p = "" THEN d
  ELSE IF d < 0 THEN d
  ELSE LET c == Char(p, 1)
           rest == SubSeq(p, 2, Len(p))
       IN  IF c = "(" THEN ParenDepth(rest, d + 1)
           ELSE IF c = ")" THEN ParenDepth(rest, d - 1)
           ELSE ParenDepth(rest, d)
RegExpThrows(p) == ParenDepth(p, 0) # 0

\* the alternatives of a pattern: the text between the | signs
RECURSIVE Branches(_, _)
Branches(p, cur) ==
  IF p = "" THEN <<cur>>
  ELSE IF Char(p, 1) = "|" THEN <<cur>> \o Branches(SubSeq(p, 2, Len(p)), "")
  ELSE Branches(SubSeq(p, 2, Len(p)), cur \o Char(p, 1))

\* whether the alternative b matches the string s, both case-folded
BranchTest(b, s) ==
  IF StartsWith(b, "^")
    THEN StartsWith(s, SubSeq(b, 2, Len(b)))
    ELSE Includes(s, b)

\* whether one of the case-folded alternatives bs matches the case-folded s
AnyBranchTest(bs, s) == \E j \in 1..Len(bs) : BranchTest(bs[j], s)

\* regex.test(s) for regex = new RegExp(p, 'i'): the 'i' flag compares the
\* letters of the pattern and of the string case-folded
RegexTest(p, s) == AnyBranchTest(Branches(Lower(p), ""), Lower(s))

(***************************************************************************)
(* The text of a page: cleanText and the comment patterns of               *)
(* extractPageInfo.                                                        *)
(***************************************************************************)
\* the white space \s matches, of the characters the model's texts hold
IsSpace(c) == c = " " \/ c = "\n" \/ c = "\t"

\* text.replace(/\s+/g, ' '): inRun says the character before s was white
\* space; a text of more than one character is done half by half
RECURSIVE CollapseSpace(_, _)
CollapseSpace(s, inRun) ==
  IF s = "" THEN ""
  ELSE IF Len(s) = 1
    THEN (IF IsSpace(s) THEN (IF inRun THEN "" ELSE " ") ELSE s)
    ELSE LET half == Len(s) \div 2
         IN  CollapseSpace(SubSeq(s, 1, half), inRun)
               \o CollapseSpace(SubSeq(s, half + 1, Len(s)), IsSpace(Char(s, half)))

\* String.prototype.trim for the white space of the model
RECURSIVE TrimSpaceLeft(_)
TrimSpaceLeft(s) ==
  IF s # "" /\ IsSpace(Char(s, 1)) THEN TrimSpaceLeft(SubSeq(s, 2, Len(s))) ELSE s
RECURSIVE TrimSpaceRight(_)
TrimSpaceRight(s) ==
  IF s # "" /\ IsSpace(Char(s, Len(s))) THEN TrimSpaceRight(SubSeq(s, 1, Len(s) - 1)) ELSE s

\* cleanText: text.replace(/\s+/g, ' ').trim()
CleanText(text) ==
  Apply(TrimSpaceRight, Apply(TrimSpaceLeft, Apply(LAMBDA t : CollapseSpace(t, FALSE), text)))

\* the literal each comment pattern /<literal>.*$/s starts with, in order
CommentPatterns ==
  << "Login to track your progress",
     "Not sure where your gaps are?",
     "Schedule a mock interview",
     "Login to Join the Discussion",
     "Your account is free",
     "Sort By",
     "Questions",
     "Learn",
     "Links",
     "Legal",
     "Contact",
     "©",
     "All rights reserved" >>

\* position of the first occurrence of p in s at or after i, 0 when none
Search(s, p, i) ==
  LET found == { k \in i..(Len(s) - Len(p) + 1) : SubSeq(s, k, k + Len(p) - 1) = p }
  IN  IF found = {} THEN 0 ELSE CHOOSE k \in found : \A other \in found : k <= other

\* a replace that removes the literal and keeps what follows it
ReplaceLiteral(content, literal) ==
  LET at == Search(content, literal, 1)
  IN  IF at = 0 THEN content
      ELSE SubSeq(content, 1, at - 1) \o SubSeq(content, at + Len(literal), Len(content))

\* content.replace(/<literal>.*$/s, ''): with the s flag the dot matches line
\* breaks too, so the first occurrence and all that follows it go
ReplacePattern(content, literal) ==
  LET at == Search(content, literal, 1)
  IN  IF at = 0 THEN content ELSE SubSeq(content, 1, at - 1)

\* commentPatterns.forEach(pattern => { content = content.replace(pattern, '') })
\* from the k-th pattern on
RECURSIVE StripFrom(_, _)
StripFrom(content, k) ==
  IF k > Len(CommentPatterns) THEN content
  ELSE Apply(LAMBDA next : StripFrom(next, k + 1),
             ReplacePattern(content, CommentPatterns[k]))

\* lines 343-348: the patterns, then content.replace(/\s+/g, ' ').trim()
StripComments(content) == CleanText(Apply(LAMBDA c : StripFrom(c, 1), content))

\* lines 324-348: content of extractPageInfo for the innerText of mainContent
Content(innerText) == StripComments(CleanText(innerText))

(***************************************************************************)
(* The document of a page: its content elements in document order, each    *)
(* with the selector it matches and its innerText, the text of the page    *)
(* chrome (nav, header, footer, ...) and the text outside both.            *)
(***************************************************************************)
\* the primary selector
PrimarySelector == "#markdown"

\* selectors of waitForContent
WaitSelectors ==
  << "main", ".main-content", "article", ".content", ".post-content", ".article-content",
     "[role=main]", ".prose", ".markdown-body" >>

\* a fallback order read from the end
ContentSelectorsReversed ==
  << ".markdown-body", ".prose", "[role=main]", ".article-content", ".post-content",
     ".content", "article", ".main-content", "main" >>

\* contentSelectors of extractPageInfo
ContentSelectors ==
  << "main", ".main-content", "article", ".content", ".post-content", ".article-content",
     "[role=main]", ".prose", ".markdown-body" >>

\* the length a text must exceed to count as content
MinContentLength == 100

\* words per minute of the reading time
WordsPerMinute == 200

\* position in the document of the first element matching sel, 0 when none:
\* document.querySelector(sel)
RECURSIVE QuerySelector(_, _, _)
QuerySelector(d, sel, k) ==
  IF k > Len(d.els) THEN 0
  ELSE IF d.els[k].sel = sel THEN k
  ELSE QuerySelector(d, sel, k + 1)

\* the texts of the elements from the k-th on, one per line
RECURSIVE ElementTexts(_, _)
ElementTexts(d, k) ==
  IF k > Len(d.els) THEN "" ELSE d.els[k].text \o "\n" \o ElementTexts(d, k + 1)

\* document.body.innerText
BodyText(d) == d.chrome \o ElementTexts(d, 1) \o d.extra

\* innerText of the body clone with the chrome elements removed
CloneText(d) == ElementTexts(d, 1) \o d.extra

\* whether waitForContent finds something to wait for
ContentAppears(d) ==
  \/ QuerySelector(d, PrimarySelector, 1) > 0
  \/ \E k \in 1..Len(WaitSelectors) : QuerySelector(d, WaitSelectors[k], 1) > 0
  \/ Len(BodyText(d)) > MinContentLength

\* element && element.innerText.trim().length > 100
Qualifies(d, sel) ==
  LET at == QuerySelector(d, sel, 1)
  IN  at > 0 /\ Len(TrimSpaceRight(TrimSpaceLeft(d.els[at].text))) > MinContentLength

\* the loop over contentSelectors from the k-th on: the first selector whose
\* element qualifies, 0 when none does
RECURSIVE FirstQualifying(_, _)
FirstQualifying(d, k) ==
  IF k > Len(ContentSelectors) THEN 0
  ELSE IF Qualifies(d, ContentSelectors[k]) THEN k
  ELSE FirstQualifying(d, k + 1)

\* usedSelector ("" for null) and the innerText of mainContent
MainContent(d) ==
  IF Qualifies(d, PrimarySelector)
    THEN [usedSelector |-> PrimarySelector,
          text |-> d.els[QuerySelector(d, PrimarySelector, 1)].text]
  ELSE LET k == FirstQualifying(d, 1)
       IN  IF k > 0
             THEN [usedSelector |-> ContentSelectors[k],
                   text |-> d.els[QuerySelector(d, ContentSelectors[k], 1)].text]
             ELSE [usedSelector |-> "", text |-> CloneText(d)]

\* the matches of /\s+/ in s: the positions where a run of white space starts
SpaceRuns(s) ==
  { k \in 1..Len(s) : IsSpace(Char(s, k)) /\ (k = 1 \/ ~IsSpace(Char(s, k - 1))) }

\* content.split(/\s+/).length: one piece more than there are separators
SplitLength(s) == Cardinality(SpaceRuns(s)) + 1

\* Math.ceil(n / d) for n >= 0 and d > 0
Ceil(n, d) == (n + d - 1) \div d

\* Math.ceil(content.split(/\s+/).length / 200)
ReadingTime(content) == Ceil(SplitLength(content), WordsPerMinute)

\* what extractPageInfo returns for the document d
PageInfoOf(d) ==
  LET main == MainContent(d)
      content == Content(main.text)
  IN  [usedSelector |-> main.usedSelector,
       content |-> content,
       readingTime |-> Apply(ReadingTime, content)]

\* updatedContent of crawlPage: the innerText of #markdown if there is one, of
\* the body if not, trimmed
UpdatedContent(d) ==
  LET at == QuerySelector(d, PrimarySelector, 1)
  IN  TrimSpaceRight(TrimSpaceLeft(IF at > 0 THEN d.els[at].text ELSE BodyText(d)))

\* finalPageInfo of the enhanced strategy
UpdatedInfo(info, d) ==
  Apply(LAMBDA content : [info EXCEPT !.content = content,
                                       !.readingTime = ReadingTime(content)],
        UpdatedContent(d))

\* the session page before the first navigation, and pageInfo before extraction
NoDom == [els |-> <<>>, chrome |-> "", extra |-> ""]
NoInfo == [usedSelector |-> "", content |-> "", readingTime |-> 0]

(***************************************************************************)
(* URLs and artifact file names.                                           *)
(***************************************************************************)
\* window.location.origin of the crawled site
Origin == "https://site"

\* new URL(href, window.location.origin).href for an absolute-path href
FullUrl(href) == Origin \o href

\* index of the first occurrence of the one-character string c at or after
\* position i of s, Len(s) + 1 when there is none
RECURSIVE IndexOf(_, _, _)
IndexOf(s, c, i) ==
  IF i > Len(s) THEN Len(s) + 1
  ELSE IF Char(s, i) = c THEN i
  ELSE IndexOf(s, c, i + 1)

\* new URL(url).pathname: what follows the authority, up to ? or #
Pathname(url) ==
  LET from(start) ==
        LET q == IndexOf(url, "?", start)
            h == IndexOf(url, "#", start)
            stop == IF q < h THEN q ELSE h
        IN  IF start > Len(url) THEN "/" ELSE SubSeq(url, start, stop - 1)
      after(colon) == Apply(from, IndexOf(url, "/", colon + 3))
  IN  Apply(after, IndexOf(url, ":", 1))

\* pathname.split('/').filter(Boolean): the segments of p from position i on,
\* where the segment being read began at position from
RECURSIVE SegmentsFrom(_, _, _)
SegmentsFrom(p, from, i) ==
  IF i > Len(p) THEN (IF from = i THEN <<>> ELSE <<SubSeq(p, from, i - 1)>>)
  ELSE IF Char(p, i) = "/"
    THEN (IF from = i THEN <<>> ELSE <<SubSeq(p, from, i - 1)>>)
           \o SegmentsFrom(p, i + 1, i + 1)
    ELSE SegmentsFrom(p, from, i + 1)
PathSegments(p) == SegmentsFrom(p, 1, 1)

\* Array.prototype.join('-')
RECURSIVE JoinDash(_)
JoinDash(segs) ==
  IF segs = <<>> THEN ""
  ELSE IF Len(segs) = 1 THEN segs[1]
  ELSE segs[1] \o "-" \o JoinDash(Tail(segs))

\* filename.replace(/[^a-zA-Z0-9-]/g, '-')
SafeChar(c) ==
  IF CharIn(c, UpperChars) \/ CharIn(c, LowerChars) \/ CharIn(c, DigitChars) \/ c = "-"
    THEN c ELSE "-"
RECURSIVE SafeFrom(_, _)
SafeFrom(s, i) == IF i > Len(s) THEN "" ELSE SafeChar(Char(s, i)) \o SafeFrom(s, i + 1)
SafeName(s) == SafeFrom(s, 1)

\* safeFilename of generatePDF and saveTextContent
SafeFilename(url) ==
  LET filename(segs) == IF Len(segs) > 0 THEN JoinDash(segs) ELSE "page"
  IN  Apply(SafeName, Apply(filename, Apply(PathSegments, Pathname(url))))

\* the artifact path `${indexPrefix}${safeFilename}-${timestamp}.${ext}` under
\* outputDir, kept as its parts; index is Null when crawlPage got no index
ArtifactPath(url, index, day, ext) ==
  [index |-> index, name |-> SafeFilename(url), date |-> day, ext |-> ext]

\* new Date().toISOString().split('T')[0] for the ISO string iso
Timestamp(iso) == SubSeq(iso, 1, IndexOf(iso, "T", 1) - 1)

\* an index prefix that is written for a missing index too
IndexPrefixAlways(index) == (IF index = Null THEN "null" ELSE ToString(index.v)) \o "-"

\* indexPrefix = index !== null ? `${index}-` : ''
IndexPrefix(index) == IF index # Null THEN ToString(index.v) \o "-" ELSE ""

\* the file name generatePDF (ext "pdf") and saveTextContent (ext "txt") join
\* to outputDir: `${indexPrefix}${safeFilename}-${timestamp}.${ext}`
FileName(url, index, iso, ext) ==
  IndexPrefix(index) \o SafeFilename(url) \o "-" \o Timestamp(iso) \o "." \o ext

\* new Date().toISOString() on the day-th day after the start of the run
ToISOString(day) == "2024-01-0" \o ToString(day + 1) \o "T12:00:00.000Z"

\* the artifact path as the string handed to the file system, outputDir left out
PathString(f) ==
  IndexPrefix(f.index) \o f.name \o "-" \o Timestamp(ToISOString(f.date)) \o "." \o f.ext

(***************************************************************************)
(* The inputs the model draws.                                             *)
(***************************************************************************)
\* URLs whose artifact names are computed
NameUrls ==
  { "https://example.com/learn/system-design/intro",
    "https://example.com",
    "https://example.com/",
    "https://example.com/a.b/c_d",
    "https://example.com//x//",
    "https://example.com/learn/a?x=1/2#f/g",
    "https://example.com/-/A1",
    "https://example.com/a%20b" }

\* what new Date().toISOString() may return
IsoTimes == { "2024-01-01T00:00:00.000Z", "2024-12-31T23:59:59.999Z" }

\* the arguments of one naming: url, index, the clock, and which artifact
NameArgs ==
  [url : NameUrls, index : {Null, Num(0), Num(1), Num(12)}, now : IsoTimes,
   ext : {"pdf", "txt"}]

\* the anchors a[href] the navigation drawer may hold, as (href, textContent)
AnchorPool ==
  { [href |-> "/learn/a", text |-> "Scaling"],
    [href |-> "/learn/b", text |-> " Intro "],
    [href |-> "/learn/a", text |-> "Again"],
    [href |-> "/learn/c", text |-> "Caching"],
    [href |-> "/api/learn", text |-> "Api"] }

\* sequences over S of length at most n
SeqsUpTo(S, n) == UNION { [1..k -> S] : k \in 0..n }

\* the drawer's anchors in DOM order
DomLists == SeqsUpTo(AnchorPool, MaxAnchors)

\* the words and the white space the text of a page is made of
WordPool == { "Intro", "Sort", "By", "Learn", "Questions", "Links" }
Separators == { " ", "  ", "\n" }

\* the words ws joined by the separator sep
RECURSIVE JoinWords(_, _)
JoinWords(ws, sep) ==
  IF ws = <<>> THEN ""
  ELSE IF Len(ws) = 1 THEN ws[1]
  ELSE ws[1] \o sep \o JoinWords(Tail(ws), sep)

\* innerText of a content element: up to MaxWords words, white space between
\* them and possibly around them
InnerTexts ==
  { lead \o JoinWords(ws, sep) \o trail :
      ws \in SeqsUpTo(WordPool, MaxWords), sep \in Separators,
      lead \in {"", " "}, trail \in {"", "\n"} }

\* the URL lists a caller hands to crawlMultiplePages (a URL may repeat)
\* n copies of s
RECURSIVE Repeat(_, _)
Repeat(s, n) ==
  IF n = 0 THEN ""
  ELSE LET half == Repeat(s, n \div 2)
       IN  IF n % 2 = 0 THEN half \o half ELSE half \o half \o s

\* a text of n words
Words(n) == Repeat("w ", n - 1) \o "w"

\* texts at the edge of the content length: one of 101 characters, one of 100
\* characters and a trailing blank, and one of 101 characters that starts
\* with a word of the comment patterns
LongText == "Scaling " \o Repeat("a", MinContentLength - 7)
EdgeText == Repeat("b", MinContentLength) \o " "
LearnText == "Learn " \o Repeat("c", MinContentLength - 5)

\* the content elements a page may hold
ElementPool == [sel : { "#markdown", "main", "article" }, text : { LongText, EdgeText }]

\* what a page may hold around its content elements
Surroundings ==
  { [chrome |-> "", extra |-> "Short note"],
    [chrome |-> "Menu " \o Repeat("m", MinContentLength) \o "\n", extra |-> "Short note"] }

\* a page of the elements es within the surroundings around
Page(es, around) == [els |-> es, chrome |-> around.chrome, extra |-> around.extra]

\* the empty page, a page whose content a pattern empties, and pages of 200
\* and 201 words
SpecialPages ==
  { Page(<<>>, [chrome |-> "", extra |-> ""]),
    Page(<<[sel |-> "#markdown", text |-> LearnText]>>, [chrome |-> "", extra |-> ""]),
    Page(<<[sel |-> "main", text |-> Words(WordsPerMinute)]>>, [chrome |-> "", extra |-> ""]),
    Page(<<[sel |-> "main", text |-> Words(WordsPerMinute + 1)]>>,
         [chrome |-> "", extra |-> ""]) }

\* the pages a site may serve
PagePool ==
  { Page(es, around) : es \in SeqsUpTo(ElementPool, MaxElements), around \in Surroundings }
    \cup SpecialPages

\* a page with nothing in it, whose content never appears
BlankPage == Page(<<>>, [chrome |-> "", extra |-> ""])

\* a page with one short content element
PlainPage == Page(<<[sel |-> "main", text |-> "Scaling"]>>, [chrome |-> "", extra |-> ""])

\* the cookies a crawler may be given: values of 20 and 21 characters for the
\* crawled site, and one of 19 characters for another site
CookiePool ==
  { [name |-> "token", value |-> "B2345678901234567890", domain |-> ".site"],
    [name |-> "auth", value |-> "C23456789012345678901", domain |-> "site"],
    [name |-> "other", value |-> "D234567890123456789", domain |-> ".elsewhere"] }

\* options.cookies
CookieLists == SeqsUpTo(CookiePool, MaxCookies)

UrlPool == { FullUrl("/learn/a"), FullUrl("/learn/b") }
UrlLists == SeqsUpTo(UrlPool, MaxUrls)

\* URL lists over two URLs of the same slug
SlugPool == { FullUrl("/learn/a-b"), FullUrl("/learn/a/b") }
SlugLists == SeqsUpTo(SlugPool, MaxUrls)

\* options.filterPattern: "" stands for an absent (undefined, null or empty)
\* pattern, all of them falsy
FilterPatterns == { "", "scal", "site|/B", "(" }
\* options.startIndex and options.maxPages
StartIndexValues == { Undef } \cup { Num(n) : n \in 0..(MaxAnchors + 1) }
MaxPagesValues == { Undef } \cup { Num(n) : n \in 0..MaxAnchors }
NavOptions ==
  [ maxPages : MaxPagesValues, filterPattern : FilterPatterns, startIndex : StartIndexValues ]

\* options whose startIndex is absent, null, NaN, negative, 0 or positive
AnyStartValues == { Undef, Null, NaN, Num(0 - 1), Num(0), Num(1), Num(2) }
AnyStartOptions ==
  [ maxPages : { Undef }, filterPattern : { "", "scal" }, startIndex : AnyStartValues ]

\* options.retries and options.pdfStrategy of the constructor
RetriesValues == { Undef, Num(1), Num(2) }
Strategies == { "basic", "enhanced", "clean" }

(***************************************************************************)
(* The state.                                                              *)
(***************************************************************************)
VARIABLES
  retriesOpt,      \* options.retries as given to the constructor
  retries,         \* this.retries
  pdfStrategy,     \* this.pdfStrategy
  cookies,         \* this.cookies
  output,          \* the console lines written so far that show a cookie
  date,            \* the day new Date() reads
  faults,          \* failures the environment may still inject
  pc,              \* where the run is suspended
  outcome,         \* "running", or how the top-level call ended: "returned", "threw"
  thrown,          \* message of the error the top-level call threw
  options,         \* options of crawlFromNavigation
  drawerAtRead,    \* the drawer when page.evaluate read it: "unread", "present", "absent"
  links,           \* links of extractNavigationLinks, until its caller resumes
  navigationLinks, \* what extractNavigationLinks returned
  filtered,        \* linksToProcess after the filter
  linksToProcess,  \* linksToProcess when the URLs are taken from it
  urls,            \* urls of crawlMultiplePages
  startIndex,      \* startIndex of crawlMultiplePages
  i,               \* loop index of crawlMultiplePages
  results,         \* results of crawlMultiplePages
  retryCount,      \* retryCount of the running crawlPage
  lastError,       \* message of the error the crawlPage calls for this URL caught last
  pdfPath,         \* pdfPath of the running crawlPage
  sleeping,        \* milliseconds of the setTimeout being awaited, 0 when none is
  files,           \* the files written under outputDir
  written,         \* what the transcripts written hold
  attemptLog,      \* per URL position reached, how each attempt ended: "ok" or "failed"
  indexLog,        \* per URL position reached, the index handed to crawlPage
  site,            \* the pages the site may serve
  dom,             \* the document the session page holds
  pageInfo,        \* pageInfo of the running crawlPage
  finalPageInfo,   \* finalPageInfo of the running crawlPage
  arg,             \* arguments of a function called on its own
  ret,             \* what that call returned
  tempPages,       \* pages generateCleanPDF opened that are still open
  controls,        \* the accordion controls of the document, in document order
  allAccordionButtons, \* allAccordionButtons of expandAccordions: positions in controls
  selectorAt,      \* the accordion selector the collecting loop is at
  buttonAt,        \* the button the expanding loop is at, i + 1
  clicks,          \* per control, how often this pass clicked it
  buttonLog,       \* per button the pass is done with, how it went
  accordionPc      \* where expandAccordions is suspended

configVars == <<retriesOpt, retries, pdfStrategy, cookies>>
navVars == <<options, drawerAtRead, links, navigationLinks, filtered, linksToProcess>>
batchVars == <<urls, startIndex, i, results>>
pageVars == <<retryCount, lastError, pdfPath>>
histVars == <<attemptLog, indexLog>>
callVars == <<arg, ret>>
domVars == <<site, dom, pageInfo, finalPageInfo>>
accVars == <<controls, allAccordionButtons, selectorAt, buttonAt, clicks, buttonLog,
             accordionPc>>
crawlVars == <<configVars, date, pc, outcome, thrown, navVars, batchVars, pageVars, sleeping,
               files, written, histVars, callVars, domVars, output, tempPages>>
vars == <<configVars, date, faults, pc, outcome, thrown, navVars, batchVars, pageVars,
          sleeping, files, written, histVars, callVars, domVars, output, tempPages, accVars>>

\* the stages of one crawlPage attempt, each an await that may reject
Stages == { "goto", "wait", "extract", "pdf", "render", "update", "text" }

NoPath == [index |-> Null, name |-> "", date |-> 0, ext |-> ""]
NoOptions == [maxPages |-> Undef, filterPattern |-> "", startIndex |-> Undef]

\* the constructor: this.retries = options.retries || 3
Constructor(opt) == IF Truthy(opt) THEN opt.v ELSE 3

\* the crawler the constructor returns, before a site that serves pages
Constructed(retryOpts, strategies, budget, pages) ==
  /\ site = pages
  /\ dom = NoDom
  /\ pageInfo = NoInfo
  /\ finalPageInfo = NoInfo
  /\ retriesOpt \in retryOpts
  /\ retries = Constructor(retriesOpt)
  /\ pdfStrategy \in strategies
  /\ date = 0
  /\ faults = budget
  /\ outcome = "running"
  /\ thrown = ""
  /\ output = {}
  /\ options = NoOptions
  /\ drawerAtRead = "unread"
  /\ links = <<>>
  /\ navigationLinks = <<>>
  /\ filtered = <<>>
  /\ linksToProcess = <<>>
  /\ urls = <<>>
  /\ startIndex = 1
  /\ i = 0
  /\ results = <<>>
  /\ retryCount = 0
  /\ lastError = ""
  /\ pdfPath = NoPath
  /\ sleeping = 0
  /\ files = {}
  /\ written = {}
  /\ attemptLog = <<>>
  /\ indexLog = <<>>
  /\ arg = <<>>
  /\ ret = ""
  /\ tempPages = 0
  /\ controls = <<>>
  /\ allAccordionButtons = <<>>
  /\ selectorAt = 1
  /\ buttonAt = 1
  /\ clicks = <<>>
  /\ buttonLog = <<>>
  /\ accordionPc = "idle"

\* the crawler constructed without cookies, after init()
InitOn(retryOpts, strategies, budget, pages) ==
  /\ Constructed(retryOpts, strategies, budget, pages)
  /\ cookies = <<>>
  /\ pc = "idle"

\* the same before a site that serves one plain page
InitWith(retryOpts, strategies, budget) == InitOn(retryOpts, strategies, budget, {PlainPage})

Init == InitWith(RetriesValues, Strategies, MaxFaults)

(***************************************************************************)
(* Authentication cookies and the console lines that show them.            *)
(***************************************************************************)
\* characters of a cookie value the log lines show
ShownLength == 20

\* String.prototype.substring(0, end)
Substring(s, end) == SubSeq(s, 1, IF end < Len(s) THEN end ELSE Len(s))

\* String.prototype.endsWith
EndsWith(s, p) == Len(p) <= Len(s) /\ SubSeq(s, Len(s) - Len(p) + 1, Len(s)) = p

\* new URL(url).hostname
Hostname(url) ==
  LET start == IndexOf(url, ":", 1) + 3
  IN  SubSeq(url, start, IndexOf(url, "/", start) - 1)

\* whether the browser context holds the cookie for the URL: its domain is
\* the host, or the host is below it
AppliesTo(cookie, url) ==
  LET bare == IF StartsWith(cookie.domain, ".")
                THEN SubSeq(cookie.domain, 2, Len(cookie.domain))
                ELSE cookie.domain
  IN  Hostname(url) = bare \/ EndsWith(Hostname(url), "." \o bare)

\* the line setupAuthentication logs for the cookie at the 0-based index
CookieLine(cookie, index) ==
  "   " \o ToString(index + 1) \o ". " \o cookie.name \o " for " \o cookie.domain
    \o " (" \o Substring(cookie.value, ShownLength) \o "...)"

\* the line crawlPage logs for a cookie of the page
PageCookieLine(cookie) ==
  "   - " \o cookie.name \o ": " \o Substring(cookie.value, ShownLength)
    \o "... (domain: " \o cookie.domain \o ")"

\* this.cookies.forEach((cookie, index) => console.log(...))
CookieLines == { CookieLine(cookies[k], k - 1) : k \in 1..Len(cookies) }

\* pageCookies.forEach(cookie => console.log(...)) for the cookies of the URL
PageCookieLines(url) ==
  { PageCookieLine(cookies[k]) : k \in { j \in 1..Len(cookies) : AppliesTo(cookies[j], url) } }

\* setupAuthentication, the last step of init() that may fail: it logs the
\* cookies and adds them to the browser context
SetupAuthentication ==
  /\ pc = "new"
  /\ output' = output \cup CookieLines
  /\ pc' = "idle"
  /\ UNCHANGED <<configVars, callVars, tempPages, accVars, domVars, sleeping, date, faults,
                 outcome, thrown, navVars, batchVars, pageVars, files, written, histVars>>

\* addCookies rejects: setupAuthentication rethrows and init() fails
SetupAuthenticationFails ==
  /\ pc = "new"
  /\ cookies # <<>>
  /\ faults > 0
  /\ faults' = faults - 1
  /\ output' = output \cup CookieLines
  /\ pc' = "done"
  /\ outcome' = "threw"
  /\ thrown' = "addCookies"
  /\ UNCHANGED <<configVars, callVars, tempPages, accVars, domVars, sleeping, date, navVars,
                 batchVars, pageVars, files, written, histVars>>

(***************************************************************************)
(* crawlMultiplePages and crawlPage.                                       *)
(***************************************************************************)
\* what crawlPage returns: the paths, and the content and metadata of info
Success(url, pdf, text, info) ==
  [url |-> url, ok |-> TRUE, error |-> "", pdfPath |-> pdf, textPath |-> text,
   content |-> info.content, readingTime |-> info.readingTime]
Failure(url, message) ==
  [url |-> url, ok |-> FALSE, error |-> message, pdfPath |-> NoPath, textPath |-> NoPath,
   content |-> "", readingTime |-> 0]

\* what saveTextContent writes at the path: the reading time and the content
\* of the info it is given
Transcript(path, info) ==
  [path |-> path, content |-> info.content, readingTime |-> info.readingTime]

\* an index that does not move with the loop
PageIndexFixed(start, j) == start

\* the index crawlMultiplePages hands to crawlPage for loop index j
PageIndex(start, j) == start + j

\* the for loop of crawlMultiplePages at index j with the results rs: the call
\* of crawlPage(url, 0, pageIndex) up to its first await, or the return
LoopAt(us, start, j, rs, log) ==
  /\ i' = j
  /\ results' = rs
  /\ pdfPath' = NoPath
  /\ IF j < Len(us)
       THEN /\ pc' = "goto"
            /\ retryCount' = 0
            /\ attemptLog' = Append(log, <<>>)
            /\ indexLog' = Append(indexLog, PageIndex(start, j))
            /\ outcome' = outcome
       ELSE /\ pc' = "done"
            /\ outcome' = "returned"
            /\ retryCount' = retryCount
            /\ attemptLog' = log
            /\ indexLog' = indexLog

\* the attempt log with the end of the running attempt added
Logged(what) == [attemptLog EXCEPT ![Len(attemptLog)] = Append(@, what)]

\* a caller invokes crawlMultiplePages(urls) on the initialised crawler with
\* one of the URL lists
CallOn(lists) ==
  /\ pc = "idle"
  /\ \E us \in lists :
       /\ urls' = us
       /\ startIndex' = 1
       /\ LoopAt(us, 1, 0, <<>>, attemptLog)
  /\ UNCHANGED <<configVars, output, callVars, tempPages, accVars, domVars, sleeping, date,
                 faults, thrown, navVars, lastError, files, written>>

CallCrawlMultiplePages == CallOn(UrlLists)

\* the same with URLs that have one slug
CallCrawlSameSlug == CallOn(SlugLists)

\* a retry bound taken one too far
WillRetryOnceMore(count, bound) == count < bound

\* whether the catch block of crawlPage retries after a failure
WillRetry(count, bound) == count < bound - 1

\* a catch block that drops the failed URL
PushNothing(rs, url, message) == rs

\* the catch block of crawlMultiplePages: results.push({ url, error: error.message })
PushFailure(rs, url, message) == Append(rs, Failure(url, message))

\* a catch block that gives up the batch at the first failed URL
AfterFailureStop(j, n) == n

\* the loop index after the catch block of crawlMultiplePages: the loop goes on
AfterFailure(j, n) == j + 1

\* a failure recorded under one message for every error
FailureMessageGeneric(finalError) == "failed"

\* the message crawlMultiplePages records for a URL whose crawlPage threw
FailureMessage(finalError) == finalError

\* the base of the backoff: 2000 ms
BaseDelay == 2000

\* a backoff that does not grow
BackoffDelayFlat(count) == BaseDelay

\* the backoff crawlPage sleeps after the attempt with this retryCount failed:
\* 2000 * (retryCount + 1)
BackoffDelay(count) == BaseDelay * (count + 1)

\* the catch block of crawlPage for an error with this message: it starts the
\* backoff sleep, or rethrows, and then the catch block of crawlMultiplePages
\* pushes a failure and the loop goes on
Catch(message) ==
  /\ lastError' = message
  /\ IF WillRetry(retryCount, retries)
       THEN /\ pc' = "backoff"
            /\ sleeping' = BackoffDelay(retryCount)
            /\ attemptLog' = Logged("failed")
            /\ UNCHANGED <<i, results, retryCount, pdfPath, indexLog, outcome>>
       ELSE /\ LoopAt(urls, startIndex, AfterFailure(i, Len(urls)),
                       PushFailure(results, urls[i + 1], FailureMessage(message)),
                       Logged("failed"))
            /\ UNCHANGED sleeping

\* page.goto resolves with one of the pages of the site, and the cookies the
\* context holds for the URL are read and logged
Goto ==
  /\ pc = "goto"
  /\ dom' \in site
  /\ pageInfo' = NoInfo
  /\ finalPageInfo' = NoInfo
  /\ output' = output \cup PageCookieLines(urls[i + 1])
  /\ pc' = "wait"
  /\ UNCHANGED <<configVars, callVars, tempPages, accVars, site, sleeping, date, faults,
                 outcome, thrown, navVars, batchVars, pageVars, files, written, histVars>>

\* waitForContent resolves when the document holds one of the content
\* elements or a body text of more than 100 characters; else its last wait
\* times out and the catch block of crawlPage runs
WaitForContent ==
  /\ pc = "wait"
  /\ IF ContentAppears(dom)
       THEN /\ pc' = "extract"
            /\ UNCHANGED <<outcome, batchVars, pageVars, sleeping, histVars>>
       ELSE /\ Catch("timeout")
            /\ UNCHANGED <<urls, startIndex>>
  /\ UNCHANGED <<configVars, output, callVars, tempPages, accVars, domVars, date, faults,
                 thrown, navVars, files, written>>

\* extractPageInfo resolves
ExtractPageInfo ==
  /\ pc = "extract"
  /\ pageInfo' = PageInfoOf(dom)
  /\ finalPageInfo' = pageInfo'
  /\ pc' = "pdf"
  /\ UNCHANGED <<configVars, output, callVars, tempPages, accVars, site, dom, sleeping,
                 date, faults, outcome, thrown, navVars, batchVars, pageVars, files,
                 written, histVars>>

\* generatePDF names the file after the day it reads and renders it; the clean
\* strategy first opens a page of its own (browser.newPage, line 785), then sets
\* its content, renders it and closes it (lines 786-802)
GeneratePDF ==
  /\ pc \in {"pdf", "render"}
  /\ IF pc = "pdf" /\ pdfStrategy = "clean"
       THEN /\ tempPages' = tempPages + 1
            /\ pc' = "render"
            /\ UNCHANGED <<pdfPath, files>>
       ELSE /\ pdfPath' = ArtifactPath(urls[i + 1], Num(PageIndex(startIndex, i)), date, "pdf")
            /\ files' = files \cup {pdfPath'}
            /\ tempPages' = IF pc = "render" THEN tempPages - 1 ELSE tempPages
            /\ pc' = IF pdfStrategy = "enhanced" THEN "update" ELSE "text"
  /\ UNCHANGED written
  /\ UNCHANGED <<configVars, output, callVars, accVars, domVars, sleeping, date, faults,
                 outcome, thrown, navVars, batchVars, retryCount, lastError, histVars>>

\* enhanced strategy: the page.evaluate that re-reads the content resolves and
\* finalPageInfo gets the updated content and its reading time
UpdateContent ==
  /\ pc = "update"
  /\ finalPageInfo' = UpdatedInfo(pageInfo, dom)
  /\ pc' = "text"
  /\ UNCHANGED <<configVars, output, callVars, tempPages, accVars, site, dom, pageInfo,
                 sleeping, date, faults, outcome, thrown, navVars, batchVars, pageVars,
                 files, written, histVars>>

\* the delay between requests: setTimeout(resolve, 2000)
RequestDelay == 2000

\* a loop that never sleeps between two URLs
DelaysNever(j, n) == FALSE

\* whether crawlMultiplePages sleeps after the success at loop index j of n
\* URLs: i < urls.length - 1
DelaysAfterSuccess(j, n) == j < n - 1

\* saveTextContent writes the transcript, crawlPage returns its result and
\* crawlMultiplePages pushes it, then sleeps unless the URL was the last
SaveTextContent ==
  /\ pc = "text"
  /\ LET url == urls[i + 1]
         textPath == ArtifactPath(url, Num(PageIndex(startIndex, i)), date, "txt")
         rs == Append(results, Success(url, pdfPath, textPath, pageInfo))
     IN  /\ files' = files \cup {textPath}
         /\ written' = written \cup {Transcript(textPath, finalPageInfo)}
         /\ IF DelaysAfterSuccess(i, Len(urls))
              THEN /\ pc' = "delay"
                   /\ sleeping' = RequestDelay
                   /\ results' = rs
                   /\ attemptLog' = Logged("ok")
                   /\ UNCHANGED <<i, retryCount, pdfPath, indexLog, outcome>>
              ELSE /\ LoopAt(urls, startIndex, i + 1, rs, Logged("ok"))
                   /\ UNCHANGED sleeping
  /\ lastError' = ""
  /\ UNCHANGED <<configVars, output, callVars, tempPages, accVars, domVars, date, faults,
                 thrown, navVars, urls, startIndex>>

\* the 2 s sleep between two URLs ends
Delay ==
  /\ pc = "delay"
  /\ sleeping' = 0
  /\ LoopAt(urls, startIndex, i + 1, results, attemptLog)
  /\ UNCHANGED <<configVars, output, callVars, tempPages, accVars, domVars, date, faults,
                 thrown, navVars, urls, startIndex, lastError, files, written>>

\* an await of the running attempt rejects
CrawlPageCatch ==
  /\ pc \in Stages
  /\ faults > 0
  /\ faults' = faults - 1
  /\ Catch(pc)
  /\ UNCHANGED <<configVars, output, callVars, tempPages, accVars, domVars, date, thrown,
                 navVars, urls, startIndex, files, written>>

\* the backoff sleep ends: crawlPage(url, retryCount + 1, index)
Backoff ==
  /\ pc = "backoff"
  /\ sleeping' = 0
  /\ retryCount' = retryCount + 1
  /\ pdfPath' = NoPath
  /\ pc' = "goto"
  /\ UNCHANGED <<configVars, output, callVars, tempPages, accVars, domVars, date, faults,
                 outcome, thrown, navVars, batchVars, lastError, files, written, histVars>>

\* midnight passes; the day is read by generatePDF and by saveTextContent only,
\* so a day that ends earlier in the run is taken to end right before the read
Tick ==
  /\ pc \in {"pdf", "text"}
  /\ date < MaxDate
  /\ date' = date + 1
  /\ UNCHANGED <<configVars, output, callVars, tempPages, accVars, domVars, sleeping,
                 faults, pc, outcome, thrown, navVars, batchVars, pageVars, files, written,
                 histVars>>

(***************************************************************************)
(* extractNavigationLinks and crawlFromNavigation.                         *)
(***************************************************************************)
\* the test of one anchor inside page.evaluate
IsContentLink(anchor) ==
  LET href == anchor.href
      text == Trim(anchor.text)
  IN  /\ href # ""
      /\ StartsWith(href, "/learn")
      /\ ~Includes(href, "/_next/")
      /\ ~Includes(href, "/api/")
      /\ text # ""
      /\ text # "Back to Main"
      /\ ~Includes(text, "Hello Interview")

LinkOf(anchor) ==
  [href |-> anchor.href, text |-> Trim(anchor.text), fullUrl |-> FullUrl(anchor.href)]

\* linkData of page.evaluate: the content links of the drawer in DOM order
RECURSIVE LinkData(_)
LinkData(anchors) ==
  IF anchors = <<>> THEN <<>>
  ELSE (IF IsContentLink(Head(anchors)) THEN <<LinkOf(Head(anchors))>> ELSE <<>>)
       \o LinkData(Tail(anchors))

\* a filter that keeps the last link of each href
KeepsLastLink(self, index) ==
  \A k \in (index + 1)..Len(self) : self[k].href # self[index].href

\* self.findIndex(l => l.href === link.href), 1-based
FindIndexByHref(self, href) ==
  CHOOSE j \in 1..Len(self) :
    /\ self[j].href = href
    /\ \A k \in 1..(j - 1) : self[k].href # href

\* whether links.filter keeps the link at position index (1-based)
KeepsLink(self, index) == index = FindIndexByHref(self, self[index].href)

\* uniqueLinks: links.filter((link, index, self) => index === self.findIndex(...))
RECURSIVE UniqueFrom(_, _)
UniqueFrom(self, index) ==
  IF index > Len(self) THEN <<>>
  ELSE (IF KeepsLink(self, index) THEN <<self[index]>> ELSE <<>>)
       \o UniqueFrom(self, index + 1)
UniqueLinks(ls) == UniqueFrom(ls, 1)

\* a filter callback that looks at the text only
FilterKeepsByText(pattern, link) == RegexTest(pattern, link.text)

\* the filter callback: regex.test(link.text) || regex.test(link.href)
FilterKeeps(pattern, link) == RegexTest(pattern, link.text) \/ RegexTest(pattern, link.href)

\* navigationLinks.filter(link => ...)
RECURSIVE FilterLinks(_, _)
FilterLinks(pattern, ls) ==
  IF ls = <<>> THEN <<>>
  ELSE (IF FilterKeeps(pattern, Head(ls)) THEN <<Head(ls)>> ELSE <<>>)
       \o FilterLinks(pattern, Tail(ls))

\* startIndex after the destructuring default
StartIndexOf(opts) == Default(opts.startIndex, Num(1))

\* a start index that is never applied
AppliesStartNever(start) == FALSE

\* whether the start index is applied: startIndex && startIndex > 1
AppliesStart(start) == Truthy(start) /\ start.v > 1

\* whether crawlFromNavigation gives up for a start index beyond the list
StartBeyond(start, ls) == start.v > Len(ls)

\* linksToProcess.slice(startIndex - 1)
SkipToStart(ls, start) == SliceFrom(ls, start.v - 1)

\* the limit: maxPages && linksToProcess.length > maxPages, then slice(0, maxPages)
LimitPages(ls, maxPages) ==
  IF Truthy(maxPages) /\ Len(ls) > maxPages.v THEN SliceTo(ls, maxPages.v) ELSE ls

\* file numbering that always starts at 1
FileStartIndexOne(start) == 1

\* fileStartIndex = startIndex || 1
FileStartIndex(start) == IF Truthy(start) THEN start.v ELSE 1

\* linksToProcess.map(link => link.fullUrl)
FullUrls(ls) == [k \in 1..Len(ls) |-> ls[k].fullUrl]

\* the top-level call ends with an error
Throws(message) ==
  /\ pc' = "done"
  /\ outcome' = "threw"
  /\ thrown' = message

\* a catch block that swallows the error and returns
PlanCatchReturns(message) ==
  /\ pc' = "done"
  /\ outcome' = "returned"
  /\ thrown' = thrown

\* the catch block of crawlFromNavigation around the synchronous part after
\* discovery: log and rethrow
PlanCatch(message) == Throws(message)

\* a caller invokes crawlFromNavigation(baseUrl, options) with one of the
\* options; extractNavigationLinks runs up to page.goto
CallWith(optionSet) ==
  /\ pc = "idle"
  /\ \E opts \in optionSet : options' = opts
  /\ pc' = "nav_goto"
  /\ UNCHANGED <<configVars, output, callVars, tempPages, accVars, domVars, sleeping, date,
                 faults, outcome, thrown, drawerAtRead, links, navigationLinks, filtered,
                 linksToProcess, batchVars, pageVars, files, written, histVars>>

CallCrawlFromNavigation == CallWith(NavOptions)

\* the same with a start index of any kind
CallCrawlFromAnyStart == CallWith(AnyStartOptions)

\* page.goto(baseUrl) resolves
NavGoto ==
  /\ pc = "nav_goto"
  /\ pc' = "nav_wait"
  /\ UNCHANGED <<configVars, output, callVars, tempPages, accVars, domVars, sleeping, date,
                 faults, outcome, thrown, navVars, batchVars, pageVars, files, written,
                 histVars>>

\* page.goto(baseUrl) or page.evaluate rejects: both catch blocks rethrow
NavFails ==
  /\ pc \in {"nav_goto", "nav_eval"}
  /\ faults > 0
  /\ faults' = faults - 1
  /\ Throws(pc)
  /\ UNCHANGED <<configVars, output, callVars, tempPages, accVars, domVars, sleeping, date,
                 navVars, batchVars, pageVars, files, written, histVars>>

\* waitForSelector of the drawer resolves, or times out when the drawer does
\* not appear
NavWaitForSelector ==
  /\ pc = "nav_wait"
  /\ \E appears \in BOOLEAN :
       IF appears
         THEN pc' = "nav_eval" /\ UNCHANGED <<outcome, thrown>>
         ELSE Throws("nav_wait")
  /\ UNCHANGED <<configVars, output, callVars, tempPages, accVars, domVars, sleeping, date,
                 faults, navVars, batchVars, pageVars, files, written, histVars>>

\* page.evaluate reads the drawer as it is now and extractNavigationLinks
\* returns the unique links
NavEvaluate ==
  /\ pc = "nav_eval"
  /\ \E present \in BOOLEAN, anchors \in DomLists :
       /\ drawerAtRead' = IF present THEN "present" ELSE "absent"
       /\ links' = IF present THEN LinkData(anchors) ELSE <<>>
  /\ navigationLinks' = UniqueLinks(links')
  /\ pc' = "nav_links"
  /\ UNCHANGED <<configVars, output, callVars, tempPages, accVars, domVars, sleeping, date,
                 faults, outcome, thrown, options, filtered, linksToProcess, batchVars,
                 pageVars, files, written, histVars>>

\* crawlFromNavigation goes on with the links: it returns [] early, throws on a
\* pattern that does not compile, or filters, skips, limits and enters
\* crawlMultiplePages(urls, fileStartIndex)
NavPlan ==
  /\ pc = "nav_links"
  /\ LET pattern == options.filterPattern
         start == StartIndexOf(options)
         kept == IF pattern # "" THEN FilterLinks(pattern, navigationLinks)
                 ELSE navigationLinks
         chosen == LimitPages(IF AppliesStart(start) THEN SkipToStart(kept, start) ELSE kept,
                              options.maxPages)
     IN  IF Len(navigationLinks) = 0
           THEN /\ pc' = "done"
                /\ outcome' = "returned"
                /\ UNCHANGED <<thrown, filtered, linksToProcess, batchVars, retryCount,
                               pdfPath, histVars>>
         ELSE IF pattern # "" /\ RegExpThrows(pattern)
           THEN /\ PlanCatch("regexp")
                /\ UNCHANGED <<filtered, linksToProcess, batchVars, retryCount, pdfPath,
                               histVars>>
         ELSE IF AppliesStart(start) /\ StartBeyond(start, kept)
           THEN /\ pc' = "done"
                /\ outcome' = "returned"
                /\ filtered' = kept
                /\ UNCHANGED <<thrown, linksToProcess, batchVars, retryCount, pdfPath,
                               histVars>>
         ELSE /\ filtered' = kept
              /\ linksToProcess' = chosen
              /\ urls' = FullUrls(chosen)
              /\ startIndex' = FileStartIndex(start)
              /\ LoopAt(urls', startIndex', 0, <<>>, attemptLog)
              /\ UNCHANGED thrown
  /\ links' = <<>>
  /\ UNCHANGED <<configVars, output, callVars, tempPages, accVars, domVars, sleeping, date,
                 faults, options, drawerAtRead, navigationLinks, lastError, files, written>>

\* extractPageInfo turns the innerText of the content element into content
ExtractContent ==
  /\ pc = "idle"
  /\ \E t \in InnerTexts :
       /\ arg' = t
       /\ ret' = Content(t)
  /\ pc' = "stripped"
  /\ UNCHANGED <<configVars, output, domVars, date, faults, outcome, thrown, navVars,
                 batchVars, pageVars, sleeping, files, written, histVars, tempPages,
                 accVars>>

\* generatePDF or saveTextContent names its file: lines 394-402 and 822-830
NameArtifact ==
  /\ pc = "idle"
  /\ \E a \in NameArgs :
       /\ arg' = a
       /\ ret' = FileName(a.url, a.index, a.now, a.ext)
  /\ pc' = "named"
  /\ UNCHANGED <<configVars, output, domVars, date, faults, outcome, thrown, navVars,
                 batchVars, pageVars, sleeping, files, written, histVars, tempPages,
                 accVars>>

(***************************************************************************)
(* expandAccordions.  A control is an element of the document: its classes, *)
(* its role, aria-expanded and data-toggle attributes, and whether the      *)
(* section it heads is open.  A control is identified by its position.      *)
(***************************************************************************)
\* accordionSelectors
AccordionSelectors ==
  << ".MuiAccordionSummary-root",
     "[role=\"button\"][aria-expanded]",
     ".accordion-header",
     ".collapse-header",
     "[data-toggle=\"collapse\"]" >>

\* getAttribute of an attribute the element does not have
NoAttribute == "null"

\* whether the control matches the selector
Matches(control, selector) ==
  CASE selector = ".MuiAccordionSummary-root" -> "MuiAccordionSummary-root" \in control.classes
    [] selector = "[role=\"button\"][aria-expanded]" ->
         control.role = "button" /\ control.ariaExpanded # NoAttribute
    [] selector = ".accordion-header" -> "accordion-header" \in control.classes
    [] selector = ".collapse-header" -> "collapse-header" \in control.classes
    [] selector = "[data-toggle=\"collapse\"]" -> control.dataToggle = "collapse"

\* page.$$(selector): handles of the matching controls from the k-th on, in
\* document order
RECURSIVE QuerySelectorAll(_, _, _)
QuerySelectorAll(cs, selector, k) ==
  IF k > Len(cs) THEN <<>>
  ELSE (IF Matches(cs[k], selector) THEN <<k>> ELSE <<>>) \o QuerySelectorAll(cs, selector, k + 1)

\* isExpanded: ariaExpanded === 'true'
IsExpanded(control) == control.ariaExpanded = "true"

\* what a click does to a control: the section toggles, and aria-expanded
\* follows it when the control has the attribute
Click(control) ==
  [control EXCEPT !.open = ~control.open,
                  !.ariaExpanded = IF control.ariaExpanded = NoAttribute THEN NoAttribute
                                   ELSE IF control.open THEN "false" ELSE "true"]

\* a Material UI accordion summary, collapsed and expanded, a Bootstrap
\* accordion header and a plain collapse header
MuiSummary ==
  [classes |-> {"MuiAccordionSummary-root"}, role |-> "button", ariaExpanded |-> "false",
   dataToggle |-> NoAttribute, open |-> FALSE]
MuiSummaryOpen == [MuiSummary EXCEPT !.ariaExpanded = "true", !.open = TRUE]
BootstrapHeader ==
  [classes |-> {"accordion-header"}, role |-> NoAttribute, ariaExpanded |-> NoAttribute,
   dataToggle |-> "collapse", open |-> FALSE]
CollapseHeader ==
  [classes |-> {"collapse-header"}, role |-> NoAttribute, ariaExpanded |-> NoAttribute,
   dataToggle |-> NoAttribute, open |-> FALSE]
ControlPool == { MuiSummary, MuiSummaryOpen, BootstrapHeader, CollapseHeader }
ControlLists == SeqsUpTo(ControlPool, MaxControls)

\* the for loop over uniqueButtons at its k-th button, or past the last one:
\* the closing wait and the return
ToButton(buttons, k) ==
  /\ buttonAt' = k
  /\ accordionPc' = IF k > Len(buttons) THEN "returned" ELSE "inspect"

\* a catch that leaves the loop at the first error
AfterClickErrorLeaves(k, n) == n + 1

\* where the loop goes when the catch of its body has caught an error at the
\* k-th button of n: to the next button
AfterClickError(k, n) == k + 1

\* expandAccordions is called on a document
CallExpandAccordions ==
  /\ accordionPc = "idle"
  /\ controls' \in ControlLists
  /\ allAccordionButtons' = <<>>
  /\ selectorAt' = 1
  /\ buttonAt' = 1
  /\ clicks' = [k \in 1..Len(controls') |-> 0]
  /\ buttonLog' = <<>>
  /\ accordionPc' = "collect"
  /\ UNCHANGED <<crawlVars, faults>>

\* one round of the loop over accordionSelectors: page.$$(selector) and the
\* push; after the last round uniqueButtons = allAccordionButtons
CollectButtons ==
  /\ accordionPc = "collect"
  /\ LET buttons == allAccordionButtons
                      \o QuerySelectorAll(controls, AccordionSelectors[selectorAt], 1)
     IN  /\ allAccordionButtons' = buttons
         /\ IF selectorAt < Len(AccordionSelectors)
              THEN /\ selectorAt' = selectorAt + 1
                   /\ UNCHANGED <<buttonAt, accordionPc>>
              ELSE /\ ToButton(buttons, 1)
                   /\ UNCHANGED selectorAt
  /\ UNCHANGED <<controls, clicks, buttonLog, crawlVars, faults>>

\* uniqueButtons[i].evaluate: the control is read as it is now
InspectButton ==
  /\ accordionPc = "inspect"
  /\ IF IsExpanded(controls[allAccordionButtons[buttonAt]])
       THEN /\ ToButton(allAccordionButtons, buttonAt + 1)
            /\ buttonLog' = Append(buttonLog, "already expanded")
       ELSE /\ accordionPc' = "scroll"
            /\ UNCHANGED <<buttonAt, buttonLog>>
  /\ UNCHANGED <<controls, allAccordionButtons, selectorAt, clicks, crawlVars, faults>>

\* uniqueButtons[i].scrollIntoViewIfNeeded()
ScrollIntoView ==
  /\ accordionPc = "scroll"
  /\ accordionPc' = "click"
  /\ UNCHANGED <<controls, allAccordionButtons, selectorAt, buttonAt, clicks, buttonLog,
                 crawlVars, faults>>

\* uniqueButtons[i].click() and the wait for the section
ClickButton ==
  /\ accordionPc = "click"
  /\ LET c == allAccordionButtons[buttonAt]
     IN  /\ controls' = [controls EXCEPT ![c] = Click(@)]
         /\ clicks' = [clicks EXCEPT ![c] = @ + 1]
  /\ buttonLog' = Append(buttonLog, "clicked")
  /\ ToButton(allAccordionButtons, buttonAt + 1)
  /\ UNCHANGED <<allAccordionButtons, selectorAt, crawlVars, faults>>

\* an await of expandAccordions rejects: page.$$ is caught by the outer catch
\* (lines 1063-1065), evaluate, scrollIntoViewIfNeeded and click by the catch
\* of the loop body (lines 1050-1052)
AccordionFails ==
  /\ accordionPc \in {"collect", "inspect", "scroll", "click"}
  /\ faults > 0
  /\ faults' = faults - 1
  /\ IF accordionPc = "collect"
       THEN /\ accordionPc' = "returned"
            /\ UNCHANGED <<buttonAt, buttonLog>>
       ELSE /\ buttonLog' = Append(buttonLog, "failed")
            /\ ToButton(allAccordionButtons,
                        AfterClickError(buttonAt, Len(allAccordionButtons)))
  /\ UNCHANGED <<controls, allAccordionButtons, selectorAt, clicks, crawlVars>>

NavNext ==
  \/ CallCrawlFromNavigation
  \/ NavGoto
  \/ NavFails
  \/ NavWaitForSelector
  \/ NavEvaluate
  \/ NavPlan

\* the steps of a crawl none of whose awaits rejects but the wait for content
QuietNext ==
  \/ Goto
  \/ WaitForContent
  \/ ExtractPageInfo
  \/ GeneratePDF
  \/ UpdateContent
  \/ SaveTextContent
  \/ Delay
  \/ Backoff

PageNext ==
  \/ QuietNext
  \/ CrawlPageCatch

\* a batch crawl: crawlMultiplePages called on a URL list
Next ==
  \/ CallCrawlMultiplePages
  \/ PageNext

Spec == Init /\ [][Next]_vars

\* a navigation crawl: crawlFromNavigation called on a crawler with two attempts
\* per page, under one failure less than a batch crawl
InitNav == InitWith({Num(2)}, {"enhanced"}, MaxFaults - 1)
NextNav ==
  \/ NavNext
  \/ PageNext
SpecNav == InitNav /\ [][NextNav]_vars

\* a batch crawl of the default crawler over midnight
InitClock == InitWith({Undef}, {"enhanced"}, MaxFaults)
NextClock ==
  \/ CallCrawlMultiplePages
  \/ PageNext
  \/ Tick
SpecClock == InitClock /\ [][NextClock]_vars

\* a batch crawl of a site that serves one of the pages, on a crawler with two
\* attempts per page, where no await rejects but the wait for content
InitPage == \E page \in PagePool : InitOn({Num(2)}, {"enhanced"}, 0, {page})
NextPage ==
  \/ CallCrawlMultiplePages
  \/ QuietNext
SpecPage == InitPage /\ [][NextPage]_vars

\* init() and a batch crawl on a crawler given cookies, with two attempts per
\* page, under one failure less than a batch crawl
InitAuth ==
  /\ Constructed({Num(2)}, {"enhanced"}, MaxFaults - 1, {PlainPage})
  /\ cookies \in CookieLists
  /\ pc = "new"
NextAuth ==
  \/ SetupAuthentication
  \/ SetupAuthenticationFails
  \/ CallCrawlMultiplePages
  \/ PageNext
SpecAuth == InitAuth /\ [][NextAuth]_vars

\* a batch crawl over URLs of one slug, over midnight
InitSlug == InitWith({Num(2)}, {"enhanced"}, MaxFaults - 1)
NextSlug ==
  \/ CallCrawlSameSlug
  \/ PageNext
  \/ Tick
SpecSlug == InitSlug /\ [][NextSlug]_vars

\* a navigation crawl called with a start index of any kind
NextStart ==
  \/ CallCrawlFromAnyStart
  \/ NavGoto
  \/ NavFails
  \/ NavWaitForSelector
  \/ NavEvaluate
  \/ NavPlan
  \/ PageNext
SpecStart == InitNav /\ [][NextStart]_vars

\* a batch crawl of a site whose page never shows content, so that every
\* attempt fails, on a crawler given a retry bound of 0, 1 or 2
InitRetry == InitOn({Num(0), Num(1), Num(2)}, {"enhanced"}, 0, {BlankPage})
NextRetry ==
  \/ CallCrawlMultiplePages
  \/ Goto
  \/ WaitForContent
  \/ Backoff
SpecRetry == InitRetry /\ [][NextRetry]_vars

\* a batch crawl under each strategy of a site that serves one of a few
\* pages, on a crawler with one attempt per page, where no await rejects but
\* the wait for content
InitStrategy == \E page \in SpecialPages \cup {PlainPage} : InitOn({Num(1)}, Strategies, 0, {page})
NextStrategy ==
  \/ CallCrawlMultiplePages
  \/ Goto
  \/ WaitForContent
  \/ ExtractPageInfo
  \/ GeneratePDF
  \/ UpdateContent
  \/ SaveTextContent
  \/ Delay
SpecStrategy == InitStrategy /\ [][NextStrategy]_vars

\* a batch crawl in which every await that is pending is settled in the end:
\* the browser operation returns or times out, the timer fires
InitLive == InitWith({Num(1), Num(2)}, {"enhanced"}, MaxFaults)
SpecLive == InitLive /\ [][Next]_vars /\ WF_vars(PageNext)

\* one pass of expandAccordions over a document, on which up to MaxFaults of its
\* awaits reject
InitAccordion == InitWith({Num(2)}, {"enhanced"}, MaxFaults)
NextAccordion ==
  \/ CallExpandAccordions
  \/ CollectButtons
  \/ InspectButton
  \/ ScrollIntoView
  \/ ClickButton
  \/ AccordionFails
SpecAccordion == InitAccordion /\ [][NextAccordion]_vars

\* the text extraction of one page
InitText == InitWith({Undef}, {"enhanced"}, 0)
NextText == ExtractContent
SpecText == InitText /\ [][NextText]_vars

\* the naming of one artifact
InitName == InitWith({Undef}, {"enhanced"}, 0)
NextName == NameArtifact
SpecName == InitName /\ [][NextName]_vars

(***************************************************************************)
(* Properties.                                                             *)
(***************************************************************************)
Returned == pc = "done" /\ outcome = "returned"
AllFailed(log) == \A a \in 1..Len(log) : log[a] = "failed"

\* C1: crawlMultiplePages returns exactly one result per input URL, and the
\* k-th result carries the k-th input URL, whatever the pages' outcomes are.
C1_OneResultPerUrl ==
  /\ Len(results) <= Len(urls)
  /\ \A k \in 1..Len(results) : results[k].url = urls[k]
  /\ Returned => Len(results) = Len(urls)

\* a batch over the same URL twice that returned a success and then a failure
C1_Witness ==
  /\ Returned
  /\ Len(urls) = 2
  /\ urls[1] = urls[2]
  /\ results[1].ok
  /\ ~results[2].ok

\* C2: the result of a URL is a Failure exactly when every attempt on that URL
\* failed, it stands at the URL's own position, and every URL of the batch is
\* attempted, those after a failed URL too.
C2_FailureIffAllAttemptsFailed ==
  /\ \A k \in 1..Len(results) :
       /\ Len(attemptLog[k]) >= 1
       /\ ~results[k].ok <=> AllFailed(attemptLog[k])
       /\ ~results[k].ok => results[k].url = urls[k] /\ results[k].error \in Stages
  /\ Returned => Len(attemptLog) = Len(urls) /\ Len(results) = Len(urls)

\* a batch whose first URL failed in both of its two attempts and whose second
\* URL, another one, succeeded
C2_Witness ==
  /\ Returned
  /\ Len(results) = 2
  /\ urls[1] # urls[2]
  /\ attemptLog[1] = <<"failed", "failed">>
  /\ ~results[1].ok
  /\ results[2].ok

\* C5: with a retry bound r >= 1 crawlPage makes at most r attempts on a URL,
\* every failed attempt but the r-th is followed by a retry, whatever stage
\* failed, and the URL fails only when the r-th attempt has failed.
C5_RetryBounded ==
  /\ retries >= 1
  /\ retryCount < retries
  /\ \A k \in 1..Len(attemptLog) :
       /\ Len(attemptLog[k]) <= retries
       /\ \A a \in 1..(Len(attemptLog[k]) - 1) : attemptLog[k][a] = "failed"
  /\ \A k \in 1..Len(results) :
       ~results[k].ok <=> (Len(attemptLog[k]) = retries /\ AllFailed(attemptLog[k]))
  /\ pc \in Stages \cup {"backoff"} =>
       /\ Len(attemptLog) = i + 1
       /\ AllFailed(attemptLog[i + 1])
       /\ Len(attemptLog[i + 1]) = retryCount + (IF pc = "backoff" THEN 1 ELSE 0)
  /\ pc = "backoff" => lastError \in Stages /\ retryCount < retries - 1

\* the backoff sleep after the transcript could not be written in the second of
\* three attempts
C5_Witness ==
  /\ pc = "backoff"
  /\ retries = 3
  /\ retryCount = 1
  /\ lastError = "text"

Range(s) == { s[k] : k \in 1..Len(s) }
Min(a, b) == IF a < b THEN a ELSE b

\* crawlFromNavigation has gone past discovery and past its own planning
NavPlanned ==
  /\ drawerAtRead # "unread"
  /\ pc \notin {"idle", "nav_goto", "nav_wait", "nav_eval", "nav_links"}
PatternCompiles == options.filterPattern = "" \/ ~RegExpThrows(options.filterPattern)
NothingCrawled == results = <<>> /\ attemptLog = <<>> /\ indexLog = <<>> /\ files = {}

\* the resumed crawl of F[s], F[s+1], ..., F[last] of the filtered list F: those URLs in that order,
\* the k-th of them (k from 0) tagged with index s + k in the call of
\* crawlPage, in the result and in every file written
ResumesFrom(s, last) ==
  LET F == filtered
  IN  /\ urls = [k \in 1..(last - s + 1) |-> F[s + k - 1].fullUrl]
      /\ Len(indexLog) <= Len(urls)
      /\ \A k \in 1..Len(indexLog) : indexLog[k] = s + k - 1
      /\ Len(results) <= Len(indexLog)
      /\ \A k \in 1..Len(results) :
           /\ results[k].url = urls[k]
           /\ results[k].ok =>
                /\ results[k].pdfPath.index = Num(s + k - 1)
                /\ results[k].textPath.index = Num(s + k - 1)
      /\ \A f \in files : \E k \in 1..Len(indexLog) : f.index = Num(s + k - 1)
      /\ Returned => Len(results) = Len(urls)

\* the case of C3: a start index s (1 when none is given) with 1 <= s <= |F|
ResumeCase ==
  /\ NavPlanned
  /\ PatternCompiles
  /\ Len(navigationLinks) > 0
  /\ StartIndexOf(options).v >= 1
  /\ StartIndexOf(options).v <= Len(filtered)

FilesOf(index, ext) == { f \in files : f.index = Num(index) /\ f.ext = ext }

\* C4: a page whose first two attempts fail and whose third succeeds (retry
\* bound 3) gives one Success result, its PDF and its transcript exist once
\* each under one index-prefixed name, and the next page has the next index.
C4_RetriedPageHasOneArtifact ==
  retries = 3 =>
    \A k \in 1..Len(attemptLog) :
      attemptLog[k] = <<"failed", "failed", "ok">> =>
        /\ Len(results) >= k
        /\ results[k].ok
        /\ results[k].url = urls[k]
        /\ Cardinality(FilesOf(indexLog[k], "pdf")) = 1
        /\ Cardinality(FilesOf(indexLog[k], "txt")) = 1
        /\ \A f \in FilesOf(indexLog[k], "pdf") \cup FilesOf(indexLog[k], "txt") :
             f.name = SafeFilename(urls[k])
        /\ k < Len(indexLog) => indexLog[k + 1] = indexLog[k] + 1

\* the links ls stand in the order of discovery
InDiscoveryOrder(ls) ==
  /\ \A a, b \in 1..Len(ls) : a < b =>
       \E x, y \in 1..Len(navigationLinks) :
         x < y /\ navigationLinks[x] = ls[a] /\ navigationLinks[y] = ls[b]
  /\ Range(ls) \subseteq Range(navigationLinks)

\* the case of C6: a pattern that compiles, applied to the discovered links
FilterCase ==
  /\ NavPlanned
  /\ options.filterPattern # ""
  /\ ~RegExpThrows(options.filterPattern)
  /\ Len(navigationLinks) > 0

C7_UniqueByHrefFirstSeen ==
  pc = "nav_links" =>
    /\ \A l \in Range(links) :
         Cardinality({ k \in 1..Len(navigationLinks) : navigationLinks[k].href = l.href }) = 1
    /\ \A k \in 1..Len(navigationLinks) :
         \E j \in 1..Len(links) :
           /\ links[j] = navigationLinks[k]
           /\ \A h \in 1..(j - 1) : links[h].href # links[j].href
    /\ \A a, b \in 1..Len(navigationLinks) : a < b =>
         \E x, y \in 1..Len(links) :
           /\ x < y
           /\ links[x] = navigationLinks[a]
           /\ links[y] = navigationLinks[b]
           /\ \A h \in 1..(y - 1) : links[h].href # links[y].href

\* the drawer held /learn/a twice, under two texts: the first one is returned
C7_Witness ==
  /\ pc = "nav_links"
  /\ Len(links) = 2
  /\ links[1].href = links[2].href
  /\ links[1].text # links[2].text
  /\ navigationLinks = <<links[1]>>

\* C8: when the navigation container is absent, also when it is absent at the
\* moment the links are read, discovery ends in an error: neither
\* extractNavigationLinks nor crawlFromNavigation returns normally.
C8_AbsentContainerIsError ==
  drawerAtRead = "absent" => pc # "nav_links" /\ outcome # "returned"

\* C9: when the start index is greater than the length of the filtered list,
\* crawlFromNavigation returns an empty result, crawls no page and writes no
\* artifact.
C9_StartBeyondReturnsEmpty ==
  ( /\ NavPlanned
    /\ PatternCompiles
    /\ StartIndexOf(options).v > Len(filtered) ) =>
      Returned /\ NothingCrawled

\* start index 2 on one link left by the filter out of two
C9_Witness ==
  /\ Returned
  /\ options.startIndex = Num(2)
  /\ options.filterPattern = "scal"
  /\ Len(navigationLinks) = 2
  /\ Len(filtered) = 1
  /\ results = <<>>

\* the options hold an invalid filter pattern or a start index beyond the list
ConfigError ==
  \/ options.filterPattern # "" /\ RegExpThrows(options.filterPattern)
  \/ PatternCompiles /\ StartIndexOf(options).v > Len(filtered)

\* C10 as stated: an invalid filter pattern, or a start index beyond the link
\* list, ends crawlFromNavigation in an error, and no page is crawled.
C10_ConfigErrorIsFatal ==
  NavPlanned /\ drawerAtRead = "present" /\ ConfigError =>
    pc = "done" /\ outcome = "threw" /\ NothingCrawled

\* C10 amended: an invalid filter pattern ends crawlFromNavigation in an error
\* when discovery found a link, and in an empty result when it found none; a
\* start index beyond the list ends it in an empty result; no page is crawled.
C10_ConfigErrorOutcome ==
  NavPlanned /\ ConfigError =>
    /\ pc = "done"
    /\ NothingCrawled
    /\ IF /\ options.filterPattern # ""
          /\ RegExpThrows(options.filterPattern)
          /\ Len(navigationLinks) > 0
         THEN outcome = "threw" /\ thrown = "regexp"
         ELSE outcome = "returned" /\ thrown = ""

\* the pattern "(" on a discovered link: the call threw
C10_Witness ==
  /\ pc = "done"
  /\ options.filterPattern = "("
  /\ Len(navigationLinks) = 1
  /\ outcome = "threw"
  /\ thrown = "regexp"

\* the step records a result for the URL at loop index i, and it is a Success
PushesSuccess == Len(results') > Len(results) /\ results'[Len(results')].ok
\* the step records a result for the URL at loop index i, and it is a Failure
PushesFailure == Len(results') > Len(results) /\ ~results'[Len(results')].ok
\* the step calls crawlPage for the next URL of the batch
StartsNextUrl == Len(attemptLog') > Len(attemptLog)

\* C11: after every successfully processed page that is not the last URL of
\* the batch, crawlMultiplePages waits the 2-second delay, and the first
\* navigation of the next URL begins only when that wait has ended.
C11_DelayAfterSuccess ==
  [][ /\ (PushesSuccess /\ Len(results') < Len(urls)) =>
           (pc' = "delay" /\ sleeping' = 2000 /\ ~StartsNextUrl)
      /\ (StartsNextUrl /\ Len(results) >= 1 /\ Len(results') = Len(results)
            /\ results[Len(results)].ok) =>
           (pc = "delay" /\ sleeping = 2000 /\ pc' = "goto" /\ sleeping' = 0)
    ]_vars

\* the 2-second wait after the first of two URLs succeeded
C11_Witness ==
  /\ pc = "delay"
  /\ sleeping = 2000
  /\ Len(urls) = 2
  /\ Len(results) = 1
  /\ results[1].ok

\* C12: pages are processed one at a time: while a crawl of a URL is running,
\* retries and backoff waits included, it is the only unfinished one, every
\* earlier URL has its Success or Failure, and no later URL has been started.
C12_OneAtATime ==
  /\ Len(indexLog) = Len(attemptLog)
  /\ Len(attemptLog) <= Len(urls)
  /\ pc \in Stages \cup {"backoff"} =>
       /\ Len(attemptLog) = i + 1
       /\ Len(results) = i
       /\ attemptLog[i + 1] = <<>> \/ attemptLog[i + 1][Len(attemptLog[i + 1])] = "failed"
  /\ pc \in {"delay", "done"} => Len(results) = Len(attemptLog)
  /\ \A k \in 1..Len(results) :
       /\ k <= Len(attemptLog)
       /\ Len(attemptLog[k]) >= 1
       /\ results[k].ok <=> attemptLog[k][Len(attemptLog[k])] = "ok"
       /\ ~results[k].ok => Len(attemptLog[k]) = retries

\* the second URL begins after the first URL failed once, backed off, and
\* succeeded in its retry
C12_Witness ==
  /\ pc = "goto"
  /\ i = 1
  /\ attemptLog = << <<"failed", "ok">>, <<>> >>
  /\ Len(results) = 1

\* C13: when the retries of a URL are exhausted, one Failure is recorded for
\* that URL, at its position, and it carries the message of the error the final
\* attempt ended with.
C13_FinalErrorPreserved ==
  [][ PushesFailure =>
        /\ pc \in Stages
        /\ retryCount = retries - 1
        /\ results' = Append(results, Failure(urls[i + 1], pc))
        /\ Len(results') = i + 1
    ]_vars

\* the first attempt got as far as writing the PDF, the final attempt failed
\* in navigation: the Failure carries the navigation error
C13_Witness ==
  /\ Len(results) = 1
  /\ ~results[1].ok
  /\ results[1].error = "goto"
  /\ attemptLog[1] = <<"failed", "failed">>
  /\ files # {}

\* the running attempt ends in a failure in this step
AttemptFails ==
  /\ pc \in Stages
  /\ Len(attemptLog'[i + 1]) = Len(attemptLog[i + 1]) + 1
  /\ attemptLog'[i + 1][Len(attemptLog'[i + 1])] = "failed"

StemOf(url) ==
  CASE url = "https://example.com/learn/system-design/intro" -> "learn-system-design-intro"
    [] url = "https://example.com" -> "page"
    [] url = "https://example.com/" -> "page"
    [] url = "https://example.com/a.b/c_d" -> "a-b-c-d"
    [] url = "https://example.com//x//" -> "x"
    [] url = "https://example.com/learn/a?x=1/2#f/g" -> "learn-a"
    [] url = "https://example.com/-/A1" -> "--A1"
    [] url = "https://example.com/a%20b" -> "a-20b"
PrefixOf(index) ==
  CASE index = Null -> ""
    [] index = Num(0) -> "0-"
    [] index = Num(1) -> "1-"
    [] index = Num(12) -> "12-"

\* C18: the artifact name is the stem of the URL path, prefixed by '<index>-'
\* only when an index is given and suffixed by '-<YYYY-MM-DD>'; the intro URL
\* with no index on 2024-01-01 gives learn-system-design-intro-2024-01-01 and
\* an empty path gives page-<date>.
C18_FileNameDeterministic ==
  pc = "named" =>
    /\ ret = PrefixOf(arg.index) \o StemOf(arg.url) \o "-" \o SubSeq(arg.now, 1, 10)
               \o "." \o arg.ext
    /\ \A k \in 1..(Len(ret) - 4) :
         CharIn(Char(ret, k), "abcdefghijklmnopqrstuvwxyzABCDEFGHIJKLMNOPQRSTUVWXYZ0123456789-")

\* the intro URL named with no index on 2024-01-01
C18_Witness ==
  /\ pc = "named"
  /\ arg.url = "https://example.com/learn/system-design/intro"
  /\ arg.index = Null
  /\ ret = "learn-system-design-intro-2024-01-01.pdf"

\* C17: boilerplate stripping is idempotent: the strip patterns followed by
\* white-space collapse and trim, applied to text that has been through them,
\* return it unchanged; so does the whole of the text extraction.
C17_StripIdempotent ==
  pc = "stripped" =>
    /\ StripComments(ret) = ret
    /\ Content(ret) = ret

\* a text from which "Questions" and what follows were stripped
C17_Witness ==
  /\ pc = "stripped"
  /\ arg = " Intro  Questions  Sort\n"
  /\ ret = "Intro"

\* a page that matches none of the content selectors and whose body text has
\* at most 100 characters
ThinPage(d) ==
  /\ QuerySelector(d, PrimarySelector, 1) = 0
  /\ \A k \in 1..Len(ContentSelectors) : QuerySelector(d, ContentSelectors[k], 1) = 0
  /\ Len(BodyText(d)) <= MinContentLength

\* C14: content extraction never fails solely because the content is thin:
\* when no await is rejected by the browser, the wait for content of a loaded
\* page that matches no content selector and has at most 100 characters of
\* text ends with the attempt going on to extraction.
C14_ThinPageIsExtracted ==
  [][(pc = "wait" /\ ThinPage(dom)) => pc' = "extract"]_vars

\* the fallback order of the content selectors
FallbackOrder ==
  << "main", ".main-content", "article", ".content", ".post-content", ".article-content",
     "[role=main]", ".prose", ".markdown-body" >>

\* the elements of the page d that match sel, by position in the document
Matching(d, sel) == { k \in 1..Len(d.els) : d.els[k].sel = sel }

\* the element sel selects: the first in the document that matches it
Selected(d, sel) == CHOOSE k \in Matching(d, sel) : \A other \in Matching(d, sel) : k <= other

\* sel selects an element whose trimmed text has more than 100 characters
HasContent(d, sel) ==
  /\ Matching(d, sel) # {}
  /\ Len(TrimSpaceRight(TrimSpaceLeft(d.els[Selected(d, sel)].text))) > 100

\* the extraction used the element sel selects
Uses(info, d, sel) ==
  /\ info.usedSelector = sel
  /\ info.content = Content(d.els[Selected(d, sel)].text)

\* C16: selector priority is first-match-wins: right after extractPageInfo,
\* if #markdown selects an element with trimmed text longer than 100
\* characters the extraction used it, whatever else matches; otherwise it used
\* the element of the first selector of the fallback order that selects one
\* with trimmed text longer than 100 characters; only when there is none did
\* it use the text of the body without the chrome elements.
C16_SelectorPriority ==
  pc = "pdf" =>
    IF HasContent(dom, "#markdown") THEN Uses(pageInfo, dom, "#markdown")
    ELSE IF \E k \in 1..Len(FallbackOrder) : HasContent(dom, FallbackOrder[k])
      THEN \E k \in 1..Len(FallbackOrder) :
             /\ HasContent(dom, FallbackOrder[k])
             /\ \A j \in 1..(k - 1) : ~HasContent(dom, FallbackOrder[j])
             /\ Uses(pageInfo, dom, FallbackOrder[k])
      ELSE /\ pageInfo.usedSelector = ""
           /\ pageInfo.content = Content(CloneText(dom))

\* a page whose main element comes before its #markdown element, both with
\* long text: the extraction used #markdown
C16_Witness ==
  /\ pc = "pdf"
  /\ dom.els = << [sel |-> "main", text |-> LongText], [sel |-> "#markdown", text |-> LongText] >>
  /\ pageInfo.usedSelector = "#markdown"

\* the number of words of s: the positions where a run of characters other
\* than white space starts
WordCount(s) ==
  Cardinality({ k \in 1..Len(s) : ~IsSpace(Char(s, k)) /\ (k = 1 \/ IsSpace(Char(s, k - 1))) })

\* the ceiling of n / d: the least number of d's that cover n
Ceiling(n, d) == CHOOSE q \in 0..n : q * d >= n /\ (q = 0 \/ (q - 1) * d < n)

\* the reading time of info is the ceiling of the word count of its text by 200
ReadingTimeRight(info) == info.readingTime = Ceiling(WordCount(info.content), 200)

\* C19: the reading time reported for a page is ceiling(word_count / 200) of
\* the extracted text, the empty text included: right after extractPageInfo
\* for pageInfo, and when the transcript is written for finalPageInfo.
C19_ReadingTimeIsCeiling ==
  /\ pc = "pdf" => ReadingTimeRight(pageInfo)
  /\ pc = "text" => ReadingTimeRight(finalPageInfo)

\* C15: credential values are never written to diagnostic output in full: no
\* line that setupAuthentication or crawlPage has logged holds the whole value
\* of a cookie the crawler was given, whatever the length of the value.
C15_NoValueLoggedInFull ==
  \A line \in output : \A k \in 1..Len(cookies) : ~Includes(line, cookies[k].value)

\* C22: within one batch, any two consecutive navigations are separated by a
\* wait: once a navigation of the batch has begun, every step that begins
\* another one ends a backoff wait or the 2-second delay, also when the URL
\* before ended as a Failure.
C22_WaitBetweenNavigations ==
  [][(attemptLog # <<>> /\ pc' = "goto") =>
       (pc \in {"backoff", "delay"} /\ sleeping > 0 /\ sleeping' = 0)]_vars

\* C25: for one successful page crawl the PDF and the transcript have the same
\* file name stem (index prefix, slug and date) and differ in extension only,
\* also when the date changes between the two reads of the clock.
C25_SameStem ==
  \A k \in 1..Len(results) :
    results[k].ok =>
      /\ results[k].pdfPath.index = results[k].textPath.index
      /\ results[k].pdfPath.name = results[k].textPath.name
      /\ results[k].pdfPath.date = results[k].textPath.date
      /\ results[k].pdfPath.ext # results[k].textPath.ext

\* C26: within one batch run no two positions of the URL list write to the
\* same artifact path: the positions have distinct indices, every file is
\* written under the index of a position, and when the batch has
\* returned the paths written under distinct indices differ as strings, also
\* for URLs of the same slug and for a URL that occurs twice.
C26_DistinctPaths ==
  /\ \A j, k \in 1..Len(indexLog) : j # k => indexLog[j] # indexLog[k]
  /\ pc = "done" =>
       \A f, g \in files : f.index # g.index => PathString(f) # PathString(g)
  /\ \A f \in files : \E k \in 1..Len(indexLog) : f.index = Num(indexLog[k])

\* two different URLs of one slug, both crawled with success
C26_Witness ==
  /\ Len(results) = 2
  /\ results[1].ok /\ results[2].ok
  /\ urls[1] # urls[2]
  /\ results[1].pdfPath.name = results[2].pdfPath.name
  /\ PathString(results[1].pdfPath) = "1-learn-a-b-2024-01-01.pdf"

\* C27: for every startIndex passed to crawlFromNavigation (absent, null,
\* NaN, 0, negative or positive) the artifact index of every crawled page is
\* a positive integer and is the 1-based position of the page's link in the
\* filtered link list.
C27_IndexIsPosition ==
  \A k \in 1..Len(indexLog) :
    /\ indexLog[k] >= 1
    /\ indexLog[k] <= Len(filtered)
    /\ filtered[indexLog[k]].fullUrl = urls[k]

\* C28: for every configured retry bound r that is a non-negative integer, a
\* permanently failing page is attempted exactly max(1, r) times before its
\* failure is reported; a configured bound of 0 gives a single attempt.
C28_AttemptsAreMaxOneBound ==
  retriesOpt.k = "number" =>
    \A k \in 1..Len(results) :
      ~results[k].ok =>
        Len(attemptLog[k]) = (IF retriesOpt.v > 1 THEN retriesOpt.v ELSE 1)

\* C29: for every rendering strategy, the body text and the reading time that
\* a Success result returns are the body text and the reading time written to
\* the text transcript of the page.
C29_ResultMatchesTranscript ==
  \A k \in 1..Len(results) :
    results[k].ok =>
      \E w \in written :
        /\ w.path = results[k].textPath
        /\ w.content = results[k].content
        /\ w.readingTime = results[k].readingTime

\* the attempts at the URL positions from the k-th on that have ended
RECURSIVE EndedAttempts(_)
EndedAttempts(k) ==
  IF k > Len(attemptLog) THEN 0 ELSE Len(attemptLog[k]) + EndedAttempts(k + 1)

\* the page attempts begun so far
Attempts == EndedAttempts(1) + (IF pc \in Stages THEN 1 ELSE 0)

\* C30: a batch crawl terminates: when every browser operation and wait
\* returns or times out in the end, crawlMultiplePages called on a URL list
\* returns, and at no time have more page attempts been begun than the number
\* of URLs times the retry bound.
C30_BatchTerminates ==
  /\ [](Attempts <= Len(urls) * retries)
  /\ (pc # "idle") ~> (pc = "done" /\ outcome = "returned" /\ Len(results) = Len(urls))

\* a batch of one URL on a crawler with two attempts per page has returned
\* after both attempts failed
C30_Witness ==
  /\ pc = "done"
  /\ outcome = "returned"
  /\ retries = 2
  /\ attemptLog = << <<"failed", "failed">> >>

\* C24: every page generateCleanPDF opens is closed before generateCleanPDF
\* finishes: whenever generateCleanPDF is not running, on the success path or
\* after attempts that failed and were retried, no page of its own is open.
C24_TempPagesClosed == (pc # "render") => (tempPages = 0)

\* C21: accordion expansion is non-fatal per control: when inspecting,
\* scrolling to or clicking a control failed, expandAccordions has still gone
\* through every button of its list by the time it returns, and whatever
\* fails inside it, it ends by returning.
C21_ExpansionNonFatal ==
  /\ accordionPc \in {"idle", "collect", "inspect", "scroll", "click", "returned"}
  /\ accordionPc \in {"inspect", "scroll", "click"} => Len(buttonLog) = buttonAt - 1
  /\ (accordionPc = "returned" /\ \E k \in 1..Len(buttonLog) : buttonLog[k] = "failed")
       => Len(buttonLog) = Len(allAccordionButtons)

\* the pass returned after an operation on its first button failed and its
\* second button was clicked
C21_Witness ==
  /\ accordionPc = "returned"
  /\ buttonLog = <<"failed", "clicked">>

\* C23: in one pass of expandAccordions each control is clicked at most once.
C23_ClickedAtMostOnce == \A k \in 1..Len(clicks) : clicks[k] <= 1

====
